---- MODULE Spec2Model ----
(***************************************************************************)
(* A model of src/app.py: the sign-in run over the configured accounts     *)
(* (SignIn.run: credential exchange, sign-in, result), the reward-code     *)
(* redemption, the notification dispatch (push) and the credential update  *)
(* at the end of main.                                                     *)
(*                                                                         *)
(* Python values.  A str is a sequence of characters; None is the tuple    *)
(* PyNone, whose one element is no character, so that it differs from      *)
(* every str.  A dict (a JSON object) is a function whose DOMAIN is the    *)
(* set of keys present: a KeyError is a key outside the DOMAIN.  A text    *)
(* built by an f-string is a record of the values interpolated into it,    *)
(* tagged with the literal it is built from.                               *)
(***************************************************************************)
EXTENDS Integers, Sequences, FiniteSets, TLC

VARIABLES
    config,     \* refresh_tokens, push_types, and by_action of the command line
    pc,         \* main's position
    idx,        \* 1-based index of the account the for loop is at
    signin,     \* the SignIn object of the current (or last) account
    results,    \* main's list of outcomes
    rewards,    \* main's list of reward messages
    reqs,       \* requests issued for the current account, in order
    raised,     \* the exception that escaped main, if any
    pushed,     \* every push() invocation so far, with the adapters called
    persisted,  \* what the credential update at the end of main did
    arg         \* the answer given to the one request of a run that studies
                \* a single method; NoArg in the runs of main

vars == <<config, pc, idx, signin, results, rewards, reqs, raised, pushed,
          persisted, arg>>

(***************************************************************************)
(* Bounds of the model.                                                    *)
(***************************************************************************)
MaxUsers == 2        \* accounts per run
MaxLogs == 2         \* entries of a sign-in log
MaxCount == 2        \* largest signInCount a response reports
MaxPushTypes == 2    \* configured channel names
MaxLogLen == 3       \* entries of a log in the runs of the sign-in alone
MaxTokenLen == 10    \* characters of a refresh token in the runs of the masking alone

(***************************************************************************)
(* Python helpers.                                                         *)
(***************************************************************************)
PyNone == <<"None">>

\* bool(v) for a str or None
Truthy(v) == v # PyNone /\ v # <<>>

\* a or b
PyOr(a, b) == IF Truthy(a) THEN a ELSE b

Min(a, b) == IF a < b THEN a ELSE b
Max(a, b) == IF a > b THEN a ELSE b

\* a slice bound clamped as Python clamps it
ClampIndex(n, i) == IF i < 0 THEN Max(n + i, 0) ELSE Min(i, n)

\* s[lo:hi]
PySlice(s, lo, hi) ==
    LET a == ClampIndex(Len(s), lo)
        b == ClampIndex(Len(s), hi)
    IN  IF a < b THEN SubSeq(s, a + 1, b) ELSE <<>>

\* s[i] for a list s and a Python index i (negative counts from the end)
PyIndex(s, i) == IF i < 0 THEN s[Len(s) + i + 1] ELSE s[i + 1]

\* '*' * n
Stars(n) == [i \in 1..n |-> "*"]

UpperCase == <<"A","B","C","D","E","F","G","H","I","J","K","L","M",
               "N","O","P","Q","R","S","T","U","V","W","X","Y","Z">>
LowerCase == <<"a","b","c","d","e","f","g","h","i","j","k","l","m",
               "n","o","p","q","r","s","t","u","v","w","x","y","z">>

LowerOf ==
    [c \in {UpperCase[k] : k \in 1..Len(UpperCase)} |->
        LowerCase[CHOOSE k \in 1..Len(UpperCase) : UpperCase[k] = c]]

LowerChar(c) == IF c \in DOMAIN LowerOf THEN LowerOf[c] ELSE c

\* str.lower()
lower(s) == [i \in 1..Len(s) |-> LowerChar(s[i])]

Whitespace == {" ", "\t", "\n"}

\* str.strip()
strip(s) ==
    LET keep == {i \in 1..Len(s) : s[i] \notin Whitespace}
    IN  IF keep = {} THEN <<>>
        ELSE SubSeq(s, CHOOSE i \in keep : \A j \in keep : i <= j,
                       CHOOSE i \in keep : \A j \in keep : i >= j)

(***************************************************************************)
(* SignIn.__init__ and SignIn.__hide_refresh_token.                        *)
(***************************************************************************)
NoError == [kind |-> "None"]

\* hide_refresh_token masking as many characters as follow the first four
hide_refresh_token_mask_tail(refresh_token) ==
    PySlice(refresh_token, 0, 4)
        \o Stars(Len(PySlice(refresh_token, 4, Len(refresh_token))))
        \o PySlice(refresh_token, -4, Len(refresh_token))

hide_refresh_token(refresh_token) ==
    PySlice(refresh_token, 0, 4)
        \o Stars(Len(PySlice(refresh_token, 4, -4)))
        \o PySlice(refresh_token, -4, Len(refresh_token))

SignInInit(refresh_token) ==
    [ refresh_token      |-> refresh_token,
      hide_refresh_token |-> hide_refresh_token(refresh_token),
      access_token       |-> PyNone,
      new_refresh_token  |-> PyNone,
      phone              |-> PyNone,
      signin_count       |-> 0,
      signin_reward      |-> PyNone,
      error              |-> NoError ]

(***************************************************************************)
(* What the provider can answer.  An answer is a JSON object; a request    *)
(* that is not answered with one raises a RequestException (the call of    *)
(* .json() is inside the try of __get_access_token and of __sign_in).      *)
(***************************************************************************)
\* The RequestException a request raises is an object of its own: it is
\* named by the call that caught it, the method and whether it is the retry.
Raised(method, retry) == [method |-> method, attempt |-> IF retry THEN 2 ELSE 1]

\* the dict d without the keys outside ks
Restrict(d, ks) == [k \in ks |-> d[k]]

\* every dict that carries some of the keys of the complete dicts in full
Dicts(full, keys) == { Restrict(d, ks) : d \in full, ks \in SUBSET keys }

AT1 == <<"a","t","1">>
NewRT1 == <<"n","1">>
NewRT2 == <<"n","2">>
Phone1 == <<"1","3","8">>

InvalidCodes == { "RefreshTokenExpired", "InvalidParameter.RefreshToken" }

TokenKeys == {"access_token", "refresh_token", "user_name"}

Complete(at, rt) == [access_token |-> at, refresh_token |-> rt, user_name |-> Phone1]

\* the answers of the credential exchange endpoint: complete ones (with an
\* access token or a refresh token that is null or empty among them), the
\* ones that lack some of the three fields, and the ones that carry a code
TokenResponses ==
    { Complete(AT1, rt) : rt \in {NewRT1, NewRT2, PyNone} }
    \cup { Complete(at, NewRT1) : at \in {PyNone, <<>>} }
    \cup { Restrict(Complete(AT1, NewRT1), ks) : ks \in SUBSET TokenKeys }
    \cup { [code |-> c] : c \in InvalidCodes }
    \cup { [code |-> c, access_token |-> AT1, refresh_token |-> NewRT1,
            user_name |-> Phone1] : c \in {"RefreshTokenExpired", "Other"} }

\* the answers the runs over several accounts draw from
FewTokenResponses ==
    { Complete(AT1, NewRT1),
      Restrict(Complete(AT1, NewRT2), {"access_token", "refresh_token"}),
      [code |-> "RefreshTokenExpired"] }

RewardNames == { <<"x">>, <<"y">> }
RewardDescription == <<"d">>

LogEntries ==
    [ status   : {"normal", "miss"},
      isReward : BOOLEAN,
      reward   : [name : RewardNames, description : {RewardDescription}] ]

SeqsUpTo(S, n) == UNION { [1..k -> S] : k \in 0..n }

SignInResults ==
    [ signInCount : 0..MaxCount, signInLogs : SeqsUpTo(LogEntries, MaxLogs) ]

\* the answers of the sign-in endpoint: without a success indicator, and
\* with one (true or false), with or without a result
SignInResponses ==
    { [code |-> "AccessTokenInvalid", message |-> <<"m">>],
      [success |-> FALSE, code |-> "Rejected", message |-> <<"m">>] }
    \cup { [success |-> b, result |-> r] : b \in BOOLEAN, r \in SignInResults }

RewardKeys == {"success", "code", "message", "result"}

RewardFull ==
    [ success : BOOLEAN,
      code    : {"30009", "30010"},
      message : {<<"m">>},
      result  : {[message |-> <<"o","k">>], [other |-> <<>>]} ]

\* the answers of the reward redemption endpoint
RewardResponses == Dicts(RewardFull, RewardKeys)

FewSignInResponses ==
    { [code |-> "AccessTokenInvalid", message |-> <<"m">>],
      [success |-> FALSE, code |-> "Rejected", message |-> <<"m">>],
      [success |-> TRUE,
       result |-> [signInCount |-> 5,
                   signInLogs |-> << [status |-> "normal", isReward |-> FALSE,
                                      reward |-> [name |-> <<"x">>,
                                                  description |-> RewardDescription]],
                                     [status |-> "miss", isReward |-> FALSE,
                                      reward |-> [name |-> <<"y">>,
                                                  description |-> RewardDescription]] >>]] }

FewRewardResponses ==
    { [success |-> TRUE, result |-> [message |-> <<"o","k">>]],
      [success |-> FALSE, code |-> "30009", message |-> <<"m">>],
      [code |-> "30010"] }

(***************************************************************************)
(* SignIn.__get_access_token: one call, given what its request met: r is   *)
(* [exc |-> TRUE] when the request raises a RequestException, and          *)
(* [data |-> d] when it is answered with the JSON object d.  ret is        *)
(* "retry" where the code calls itself with retry=True (the next call is   *)
(* the action's next firing), else "True" or "False".                      *)
(***************************************************************************)
ParamMissing(data) == [kind |-> "str", literal |-> "param_missing", data |-> data]

\* as get_access_token_data, with the second code left out of the list
get_access_token_data_one_code(self, data) ==
    IF "code" \in DOMAIN data /\ data.code \in {"RefreshTokenExpired"}
    THEN [self |-> [self EXCEPT !.error = [kind |-> "data", data |-> data]],
          ret |-> "False"]
    ELSE IF TokenKeys \subseteq DOMAIN data
    THEN [self |-> [self EXCEPT !.access_token = data.access_token,
                                !.new_refresh_token = data.refresh_token,
                                !.phone = data.user_name],
          ret |-> "True"]
    ELSE [self |-> [self EXCEPT !.error = ParamMissing(data)], ret |-> "False"]

get_access_token_data(self, data) ==
    IF "code" \in DOMAIN data /\ data.code \in InvalidCodes
    THEN [self |-> [self EXCEPT !.error = [kind |-> "data", data |-> data]],
          ret |-> "False"]
    ELSE IF "access_token" \notin DOMAIN data
    THEN [self |-> [self EXCEPT !.error = ParamMissing(data)], ret |-> "False"]
    ELSE IF "refresh_token" \notin DOMAIN data
    THEN [self |-> [self EXCEPT !.access_token = data.access_token,
                                !.error = ParamMissing(data)],
          ret |-> "False"]
    ELSE IF "user_name" \notin DOMAIN data
    THEN [self |-> [self EXCEPT !.access_token = data.access_token,
                                !.new_refresh_token = data.refresh_token,
                                !.error = ParamMissing(data)],
          ret |-> "False"]
    ELSE [self |-> [self EXCEPT !.access_token = data.access_token,
                                !.new_refresh_token = data.refresh_token,
                                !.phone = data.user_name],
          ret |-> "True"]

\* as get_access_token_except, with the test of retry inverted
get_access_token_except_inverted(self, retry, e) ==
    IF retry
    THEN [self |-> self, ret |-> "retry"]
    ELSE [self |-> [self EXCEPT !.error = [kind |-> "exception", e |-> e]],
          ret |-> "False"]

get_access_token_except(self, retry, e) ==
    IF ~retry
    THEN [self |-> self, ret |-> "retry"]
    ELSE [self |-> [self EXCEPT !.error = [kind |-> "exception", e |-> e]],
          ret |-> "False"]

get_access_token(self, retry, r) ==
    IF "exc" \in DOMAIN r
    THEN get_access_token_except(self, retry, Raised("get_access_token", retry))
    ELSE get_access_token_data(self, r.data)

(***************************************************************************)
(* SignIn.__sign_in: one call.  ret is "retry", "return", or "raise" with  *)
(* the exception type in exc when an exception leaves the method.          *)
(***************************************************************************)
\* the index of the first entry with status miss, or -1
FirstMiss(logs) ==
    LET miss == {i \in 1..Len(logs) : logs[i].status = "miss"}
    IN  IF miss = {} THEN -1
        ELSE (CHOOSE i \in miss : \A j \in miss : i <= j) - 1

NoRewardText == <<"no_reward">>
RewardText(day) ==
    IF ~day.isReward THEN NoRewardText
    ELSE <<"got", " ">> \o day.reward.name \o <<" ">> \o day.reward.description

\* sign_in_data reading the entry of the first miss itself
sign_in_data_at_miss(self, data) ==
    IF "success" \notin DOMAIN data
    THEN [self |-> [self EXCEPT !.error = [kind |-> "data", data |-> data]],
          ret |-> "return", exc |-> "-"]
    ELSE IF "result" \notin DOMAIN data
    THEN [self |-> self, ret |-> "raise", exc |-> "KeyError"]
    ELSE LET logs == data.result.signInLogs
             i == FirstMiss(logs)
         IN  IF i = -1
             THEN [self |-> self, ret |-> "raise", exc |-> "TypeError"]
             ELSE [self |-> [self EXCEPT
                                !.signin_count = data.result.signInCount,
                                !.signin_reward = RewardText(PyIndex(logs, i))],
                   ret |-> "return", exc |-> "-"]

sign_in_data(self, data) ==
    IF "success" \notin DOMAIN data
    THEN [self |-> [self EXCEPT !.error = [kind |-> "data", data |-> data]],
          ret |-> "return", exc |-> "-"]
    ELSE IF "result" \notin DOMAIN data
    THEN [self |-> self, ret |-> "raise", exc |-> "KeyError"]
    ELSE LET logs == data.result.signInLogs
             i == FirstMiss(logs)
         IN  IF i = -1
             THEN \* current_day stays None: None['isReward']
                  [self |-> self, ret |-> "raise", exc |-> "TypeError"]
             ELSE [self |-> [self EXCEPT
                                !.signin_count = data.result.signInCount,
                                !.signin_reward = RewardText(PyIndex(logs, i - 1))],
                   ret |-> "return", exc |-> "-"]

\* as sign_in_except, with the test of retry inverted
sign_in_except_inverted(self, retry, e) ==
    IF retry
    THEN [self |-> self, ret |-> "retry", exc |-> "-"]
    ELSE [self |-> [self EXCEPT !.error = [kind |-> "exception", e |-> e]],
          ret |-> "return", exc |-> "-"]

sign_in_except(self, retry, e) ==
    IF ~retry
    THEN [self |-> self, ret |-> "retry", exc |-> "-"]
    ELSE [self |-> [self EXCEPT !.error = [kind |-> "exception", e |-> e]],
          ret |-> "return", exc |-> "-"]

sign_in(self, retry, r) ==
    IF "exc" \in DOMAIN r
    THEN sign_in_except(self, retry, Raised("sign_in", retry))
    ELSE sign_in_data(self, r.data)

(***************************************************************************)
(* SignIn.__generate_result.                                               *)
(***************************************************************************)
\* json.dumps(str(error), indent=2, ensure_ascii=False)
DumpsStr(error) == [dumps |-> [str |-> error]]

ResultText(self, html) ==
    LET user == PyOr(self.phone, self.hide_refresh_token)
    IN  IF self.signin_count # 0
        THEN [literal |-> "success", html |-> html, user |-> user,
              count |-> self.signin_count, reward |-> self.signin_reward]
        ELSE [literal |-> "failure", html |-> html, user |-> user,
              error |-> DumpsStr(self.error)]

generate_result(self) ==
    [ success       |-> self.signin_count # 0,
      user          |-> PyOr(self.phone, self.hide_refresh_token),
      refresh_token |-> PyOr(self.new_refresh_token, self.refresh_token),
      count         |-> self.signin_count,
      reward        |-> self.signin_reward,
      text          |-> ResultText(self, FALSE),
      text_html     |-> ResultText(self, TRUE) ]

(***************************************************************************)
(* reward_code: ret is the message returned; exc is the type of the        *)
(* exception that leaves the function, "-" when none does.                 *)
(***************************************************************************)
RewardNone == [literal |-> "None"]

reward_code_data(data) ==
    IF "success" \notin DOMAIN data
    THEN IF "message" \in DOMAIN data
         THEN [ret |-> [literal |-> "error", message |-> data.message], exc |-> "-"]
         ELSE [ret |-> RewardNone, exc |-> "KeyError"]
    ELSE IF data.success
    THEN IF "result" \in DOMAIN data /\ "message" \in DOMAIN data.result
         THEN [ret |-> [literal |-> "success", message |-> data.result.message],
               exc |-> "-"]
         ELSE [ret |-> RewardNone, exc |-> "KeyError"]
    ELSE IF "code" \notin DOMAIN data
    THEN [ret |-> RewardNone, exc |-> "KeyError"]
    ELSE IF data.code = "30009"
    THEN [ret |-> RewardNone, exc |-> "-"]
    ELSE IF "message" \in DOMAIN data
    THEN [ret |-> [literal |-> "failure", message |-> data.message], exc |-> "-"]
    ELSE [ret |-> RewardNone, exc |-> "KeyError"]

reward_code(token, code, r) ==
    IF "exc" \in DOMAIN r
    THEN [ret |-> [literal |-> "request_error"], exc |-> "-"]
    ELSE reward_code_data(r.data)

(***************************************************************************)
(* push.  The registered adapters, in the order of the dict literal.       *)
(***************************************************************************)
dingtalk == <<"d","i","n","g","t","a","l","k">>
serverchan == <<"s","e","r","v","e","r","c","h","a","n">>
pushdeer == <<"p","u","s","h","d","e","e","r">>
telegram == <<"t","e","l","e","g","r","a","m">>
pushplus == <<"p","u","s","h","p","l","u","s">>
smtp == <<"s","m","t","p">>
feishu == <<"f","e","i","s","h","u">>

Registry == <<dingtalk, serverchan, pushdeer, telegram, pushplus, smtp, feishu>>

\* a config value that is one str or a list of str, as a list
AsList(v) == IF v.type = "str" THEN <<v.val>> ELSE v.val

\* as configured_push_types, without the call of lower
configured_push_types_no_lower(cfg) ==
    LET raw == AsList(cfg.push_types)
    IN  [i \in 1..Len(raw) |-> strip(raw[i])]

configured_push_types(cfg) ==
    LET raw == AsList(cfg.push_types)
    IN  [i \in 1..Len(raw) |-> strip(lower(raw[i]))]

InList(x, l) == \E i \in 1..Len(l) : l[i] = x

\* pusher.push(config, content, content_html, title) of the adapter modules:
\* the adapter handles its own failure and returns
AdapterPush(push_type, cfg, content, content_html, title, fails) ==
    [ adapter |-> push_type, config |-> cfg, content |-> content,
      content_html |-> content_html, title |-> title,
      sent |-> push_type \notin fails ]

\* as push_loop, leaving the loop after an adapter that failed
RECURSIVE push_loop_break(_, _, _, _)
push_loop_break(i, configured, args, fails) ==
    IF i > Len(Registry) THEN <<>>
    ELSE IF InList(Registry[i], configured)
    THEN <<AdapterPush(Registry[i], args.config, args.content,
                       args.content_html, args.title, fails)>>
         \o (IF Registry[i] \in fails THEN <<>>
             ELSE push_loop_break(i + 1, configured, args, fails))
    ELSE push_loop_break(i + 1, configured, args, fails)

\* the for loop of push from position i of the registry on: the adapter
\* calls it makes, in order; args are the arguments of push
RECURSIVE push_loop(_, _, _, _)
push_loop(i, configured, args, fails) ==
    IF i > Len(Registry) THEN <<>>
    ELSE IF InList(Registry[i], configured)
    THEN <<AdapterPush(Registry[i], args.config, args.content,
                       args.content_html, args.title, fails)>>
         \o push_loop(i + 1, configured, args, fails)
    ELSE push_loop(i + 1, configured, args, fails)

push(cfg, content, content_html, title, fails) ==
    [ content |-> content, content_html |-> content_html, title |-> title,
      calls |-> push_loop(1, configured_push_types(cfg),
                          [config |-> cfg, content |-> content,
                           content_html |-> content_html, title |-> title],
                          fails) ]

\* which adapters fail during one push: none, or one of them
FailChoices == {{}} \cup { {Registry[i]} : i \in 1..Len(Registry) }

(***************************************************************************)
(* main.                                                                   *)
(***************************************************************************)
OldRT1 == <<"o","1">>
OldRT2 == <<"o","l","d","t","o","k","e","n","2">>

\* the refresh token configured for account i
OldRT(i) == IF i % 2 = 1 THEN OldRT1 ELSE OldRT2

\* config['refresh_tokens'] for n accounts: a list, or one str
RefreshTokenList(n) == [type |-> "list", val |-> [i \in 1..n |-> OldRT(i)]]
RefreshTokenStr == [type |-> "str", val |-> OldRT1]

\* config['push_types'] of the runs of main
MainPushTypes ==
    { [type |-> "str", val |-> <<"T","e","l","e","g","r","a","m">>],
      [type |-> "list", val |-> << <<" ","s","m","t","p">>, dingtalk, <<"x">> >>] }

users == AsList(config.refresh_tokens)

NoSignIn == SignInInit(<<>>)
NotRaised == [in |-> "-", type |-> "-"]
NotPersisted == [sink |-> "-"]
NoArg == [none |-> TRUE]

Start ==
    /\ pc = "loop"
    /\ idx = 1
    /\ signin = NoSignIn
    /\ results = <<>>
    /\ rewards = <<>>
    /\ reqs = <<>>
    /\ raised = NotRaised
    /\ pushed = <<>>
    /\ persisted = NotPersisted
    /\ arg = NoArg

\* runs over one to MaxUsers accounts
Init ==
    /\ config \in [ refresh_tokens : { RefreshTokenList(n) : n \in 1..MaxUsers },
                    push_types : MainPushTypes,
                    by_action : BOOLEAN ]
    /\ Start

\* runs over one account
InitAccount ==
    /\ config \in [ refresh_tokens : { RefreshTokenList(1), RefreshTokenStr },
                    push_types : { [type |-> "str", val |-> telegram] },
                    by_action : BOOLEAN ]
    /\ Start

\* what the request log keeps of a request: the endpoint, whether it raised,
\* the class of the answer, the access token the request carried, and the
\* code and the refresh token of the answer
Request(api, r, cls, token) ==
    [ api |-> api, raised |-> "exc" \in DOMAIN r,
      cls |-> IF "exc" \in DOMAIN r THEN "exception" ELSE cls,
      token |-> token,
      code |-> IF "data" \in DOMAIN r /\ "code" \in DOMAIN r.data
               THEN r.data.code ELSE "-",
      rt |-> IF "data" \in DOMAIN r /\ "refresh_token" \in DOMAIN r.data
             THEN r.data.refresh_token ELSE PyNone ]

TokenClass(data) ==
    IF "code" \in DOMAIN data /\ data.code \in InvalidCodes THEN "invalid_code"
    ELSE IF TokenKeys \subseteq DOMAIN data THEN "complete"
    ELSE "missing_field"

SignInClass(data) ==
    IF "success" \notin DOMAIN data THEN "no_success"
    ELSE IF data.success THEN "success_true"
    ELSE "success_false"

RewardClass(data) ==
    IF "success" \notin DOMAIN data THEN "no_success"
    ELSE IF data.success THEN "success_true"
    ELSE IF "code" \in DOMAIN data /\ data.code = "30009" THEN "redeemed"
    ELSE "rejected"

Inputs(S) == { [exc |-> TRUE] } \cup { [data |-> d] : d \in S }

\* the head of the for loop: signin = SignIn(config=config, refresh_token=user)
NewSignIn ==
    /\ pc = "loop"
    /\ idx <= Len(users)
    /\ signin' = SignInInit(users[idx])
    /\ reqs' = <<>>
    /\ pc' = "get_access_token"
    /\ UNCHANGED <<config, idx, results, rewards, raised, pushed, persisted, arg>>

\* main from the return of signin.run() to the next request or the next
\* account: results.append(...), then the test of signin.access_token
AfterRun(self) ==
    /\ signin' = self
    /\ results' = Append(results, generate_result(self))
    /\ IF ~Truthy(self.access_token)
       THEN pc' = "loop" /\ idx' = idx + 1
       ELSE pc' = "reward_code" /\ idx' = idx

\* signin.run() up to and including one credential exchange request and
\* what follows it without a further request
GetAccessToken(r) ==
    /\ pc \in {"get_access_token", "get_access_token_retry"}
    /\ LET retry == pc = "get_access_token_retry"
           out == get_access_token(signin, retry, r)
           cls == IF "data" \in DOMAIN r THEN TokenClass(r.data) ELSE "exception"
       IN  /\ reqs' = Append(reqs, Request("token", r, cls, PyNone))
           /\ CASE out.ret = "retry" ->
                    /\ signin' = out.self
                    /\ pc' = "get_access_token_retry"
                    /\ UNCHANGED <<idx, results>>
                [] out.ret = "True" ->
                    /\ signin' = out.self
                    /\ pc' = "sign_in"
                    /\ UNCHANGED <<idx, results>>
                [] OTHER -> AfterRun(out.self)
    /\ UNCHANGED <<config, rewards, raised, pushed, persisted, arg>>

\* one sign-in request and what follows it without a further request
SignInRequest(r) ==
    /\ pc \in {"sign_in", "sign_in_retry"}
    /\ LET retry == pc = "sign_in_retry"
           out == sign_in(signin, retry, r)
           cls == IF "data" \in DOMAIN r THEN SignInClass(r.data) ELSE "exception"
       IN  /\ reqs' = Append(reqs, Request("sign_in", r, cls, signin.access_token))
           /\ CASE out.ret = "retry" ->
                    /\ signin' = out.self
                    /\ pc' = "sign_in_retry"
                    /\ UNCHANGED <<idx, results, raised>>
                [] out.ret = "raise" ->
                    /\ signin' = out.self
                    /\ pc' = "crashed"
                    /\ raised' = [in |-> "sign_in", type |-> out.exc]
                    /\ UNCHANGED <<idx, results>>
                [] OTHER -> AfterRun(out.self) /\ UNCHANGED raised
    /\ UNCHANGED <<config, rewards, pushed, persisted, arg>>

\* the reward redemption of the current account and the end of the loop body
RewardCode(r) ==
    /\ pc = "reward_code"
    /\ LET out == reward_code(signin.access_token, "anniversary", r)
           reward == IF out.ret = RewardNone
                     THEN [literal |-> "already_redeemed"] ELSE out.ret
           cls == IF "data" \in DOMAIN r THEN RewardClass(r.data) ELSE "exception"
       IN  /\ reqs' = Append(reqs, Request("rewards", r, cls, signin.access_token))
           /\ IF out.exc # "-"
              THEN /\ pc' = "crashed"
                   /\ raised' = [in |-> "reward_code", type |-> out.exc]
                   /\ UNCHANGED <<idx, rewards>>
              ELSE /\ rewards' = Append(rewards, [phone |-> signin.phone, reward |-> reward])
                   /\ pc' = "loop"
                   /\ idx' = idx + 1
                   /\ UNCHANGED raised
    /\ UNCHANGED <<config, signin, results, pushed, persisted, arg>>

\* '\n\n'.join(parts), with the text appended to it when footer is set
JoinText(parts, footer) == [sep |-> "\n\n", parts |-> parts, footer |-> footer]

\* ','.join(l) for a list of str
RECURSIVE JoinComma(_)
JoinComma(l) ==
    IF l = <<>> THEN <<>>
    ELSE IF Len(l) = 1 THEN l[1]
    ELSE l[1] \o <<",">> \o JoinComma(Tail(l))

Column(l, field) == [i \in 1..Len(l) |-> l[i][field]]

\* the end of the for loop and the push of the combined report
PushReport(fails) ==
    /\ pc = "loop"
    /\ idx > Len(users)
    /\ pushed' = Append(pushed,
                        push(config, JoinText(Column(results, "text"), FALSE),
                             JoinText(Column(results, "text_html"), FALSE),
                             "signin", fails))
    /\ pc' = IF rewards # <<>> THEN "push_rewards" ELSE "update"
    /\ UNCHANGED <<config, idx, signin, results, rewards, reqs, raised, persisted, arg>>

\* the push of the reward report
PushRewards(fails) ==
    /\ pc = "push_rewards"
    /\ pushed' = Append(pushed,
                        push(config, JoinText(rewards, TRUE), JoinText(rewards, TRUE),
                             "anniversary", fails))
    /\ pc' = "update"
    /\ UNCHANGED <<config, idx, signin, results, rewards, reqs, raised, persisted, arg>>

\* github.update_secret: returns when it succeeds (ok), raises when it fails
update_secret(ok) == [raised |-> ~ok]

\* UpdateRefreshTokens with an except clause that only logs
UpdateRefreshTokens_log_only(ok, fails) ==
    /\ pc = "update"
    /\ LET new_users == Column(results, "refresh_token")
           joined == JoinComma(new_users)
       IN  IF ~config.by_action
           THEN /\ config' = [config EXCEPT
                                 !.refresh_tokens = [type |-> "str", val |-> joined]]
                /\ persisted' = [sink |-> "config", new_users |-> new_users,
                                 value |-> joined]
                /\ UNCHANGED pushed
           ELSE /\ persisted' = [sink |-> IF update_secret(ok).raised
                                          THEN "github_failed" ELSE "github",
                                 new_users |-> new_users, value |-> joined]
                /\ UNCHANGED <<pushed, config>>
    /\ pc' = "done"
    /\ UNCHANGED <<idx, signin, results, rewards, reqs, raised, arg>>

\* the update of the refresh tokens: into the configuration, or through
\* github.update_secret, whose exception is caught and pushed
UpdateRefreshTokens(ok, fails) ==
    /\ pc = "update"
    /\ LET new_users == Column(results, "refresh_token")
           joined == JoinComma(new_users)
       IN  IF ~config.by_action
           THEN /\ config' = [config EXCEPT
                                 !.refresh_tokens = [type |-> "str", val |-> joined]]
                /\ persisted' = [sink |-> "config", new_users |-> new_users,
                                 value |-> joined]
                /\ UNCHANGED pushed
           ELSE /\ persisted' = [sink |-> IF update_secret(ok).raised
                                          THEN "github_failed" ELSE "github",
                                 new_users |-> new_users, value |-> joined]
                /\ pushed' = IF ~update_secret(ok).raised THEN pushed
                             ELSE Append(pushed,
                                         push(config, [literal |-> "update_failed"],
                                              [literal |-> "update_failed"],
                                              "signin", fails))
                /\ UNCHANGED config
    /\ pc' = "done"
    /\ UNCHANGED <<idx, signin, results, rewards, reqs, raised, arg>>

\* the adapters that fail during one push of a run of main
MainFailChoices == { {} }

Finish ==
    \/ \E fails \in MainFailChoices : PushReport(fails)
    \/ \E fails \in MainFailChoices : PushRewards(fails)
    \/ \E ok \in BOOLEAN, fails \in MainFailChoices : UpdateRefreshTokens(ok, fails)

Next ==
    \/ NewSignIn
    \/ \E r \in Inputs(FewTokenResponses) : GetAccessToken(r)
    \/ \E r \in Inputs(FewSignInResponses) : SignInRequest(r)
    \/ \E r \in Inputs(FewRewardResponses) : RewardCode(r)
    \/ Finish

Spec == Init /\ [][Next]_vars

NextAccount ==
    \/ NewSignIn
    \/ \E r \in Inputs(TokenResponses) : GetAccessToken(r)
    \/ \E r \in Inputs(SignInResponses) : SignInRequest(r)
    \/ \E r \in Inputs(RewardResponses) : RewardCode(r)
    \/ Finish

SpecAccount == InitAccount /\ [][NextAccount]_vars

(***************************************************************************)
(* push on its own: every configured list of channel names, every choice   *)
(* of the adapter that fails.                                              *)
(***************************************************************************)
RawNames ==
    { Registry[i] : i \in 1..Len(Registry) }
    \cup { <<"T","e","l","e","g","r","a","m">>,
           <<" ","s","m","t","p">>,
           <<"S","M","T","P"," ">>,
           <<"\t","F","e","i","S","h","u","\n">>,
           <<"t","e","l","e"," ","g","r","a","m">>,
           <<"s","m","t","p","s">>,
           <<"x">>,
           <<>> }

PushTypeConfigs ==
    { [type |-> "str", val |-> n] : n \in RawNames }
    \cup { [type |-> "list", val |-> l] : l \in SeqsUpTo(RawNames, MaxPushTypes) }

InitPush ==
    /\ config \in [ refresh_tokens : { RefreshTokenStr },
                    push_types : PushTypeConfigs,
                    by_action : {FALSE} ]
    /\ pc = "push"
    /\ idx = 1
    /\ signin = NoSignIn
    /\ results = <<>>
    /\ rewards = <<>>
    /\ reqs = <<>>
    /\ raised = NotRaised
    /\ pushed = <<>>
    /\ persisted = NotPersisted
    /\ arg = NoArg

\* one call of push
Push(content, content_html, title, fails) ==
    /\ pc = "push"
    /\ pushed' = Append(pushed, push(config, content, content_html, title, fails))
    /\ pc' = "pushed"
    /\ UNCHANGED <<config, idx, signin, results, rewards, reqs, raised, persisted, arg>>

NextPush ==
    \E title \in {"signin", "anniversary"}, fails \in FailChoices :
        Push(<<"t","e","x","t">>, <<"h","t","m","l">>, title, fails)

SpecPush == InitPush /\ [][NextPush]_vars

(***************************************************************************)
(* __sign_in on its own: the session of an account whose exchange has      *)
(* succeeded, and one sign-in request answered with success and a log of   *)
(* up to MaxLogLen entries, which arg keeps.                               *)
(***************************************************************************)
LogResults ==
    [ signInCount : 0..MaxCount, signInLogs : SeqsUpTo(LogEntries, MaxLogLen) ]

InitSignIn ==
    /\ config \in [ refresh_tokens : { RefreshTokenStr },
                    push_types : { [type |-> "str", val |-> telegram] },
                    by_action : {FALSE} ]
    /\ pc = "sign_in"
    /\ idx = 1
    /\ signin = [SignInInit(OldRT1) EXCEPT !.access_token = AT1,
                                           !.new_refresh_token = NewRT1,
                                           !.phone = Phone1]
    /\ results = <<>>
    /\ rewards = <<>>
    /\ reqs = << Request("token", [data |-> Complete(AT1, NewRT1)], "complete", PyNone) >>
    /\ raised = NotRaised
    /\ pushed = <<>>
    /\ persisted = NotPersisted
    /\ arg \in { [data |-> [success |-> TRUE, result |-> r]] : r \in LogResults }

NextSignIn == SignInRequest(arg)

SpecSignIn == InitSignIn /\ [][NextSignIn]_vars

(***************************************************************************)
(* SignIn.__init__ on its own: one account whose refresh token is any      *)
(* string of up to MaxTokenLen characters.                                 *)
(***************************************************************************)
TokenChars == {"a", "b"}
Tokens == SeqsUpTo(TokenChars, MaxTokenLen)

InitMask ==
    /\ config \in [ refresh_tokens : { [type |-> "list", val |-> <<t>>] : t \in Tokens },
                    push_types : { [type |-> "str", val |-> telegram] },
                    by_action : {FALSE} ]
    /\ Start

NextMask == NewSignIn

SpecMask == InitMask /\ [][NextMask]_vars

(***************************************************************************)
(* What the request log and main's position say of the current account.    *)
(***************************************************************************)
ReqsOf(api) == SelectSeq(reqs, LAMBDA q : q.api = api)
TokenReqs == ReqsOf("token")
SignInReqs == ReqsOf("sign_in")
RewardReqs == ReqsOf("rewards")

Last(l) == l[Len(l)]

\* __get_access_token has returned, and what it returned
ExchangeOver == TokenReqs # <<>> /\ pc \notin {"get_access_token", "get_access_token_retry"}
ExchangeSucceeded == ExchangeOver /\ Last(TokenReqs).cls = "complete"
ExchangeFailed == ExchangeOver /\ Last(TokenReqs).cls # "complete"

\* run() has returned for the current account: its outcome is the last one
RunOver ==
    /\ ExchangeOver
    /\ pc \notin {"sign_in", "sign_in_retry"}
    /\ raised.in # "sign_in"

(***************************************************************************)
(* C1: a transport failure of the first exchange request is retried        *)
(* exactly once, and only a transport failure is; a complete answer to     *)
(* the retry makes the exchange succeed with no error stored; a second     *)
(* transport failure makes it fail with the error of the second attempt    *)
(* stored (and rendered into the outcome); at most two exchange requests   *)
(* are issued per account.                                                 *)
(***************************************************************************)
C1_RetryOnce ==
    LET t == TokenReqs
    IN  /\ Len(t) <= 2
        /\ Len(t) >= 1 /\ t[1].raised => Len(t) = 2 \/ pc = "get_access_token_retry"
        /\ Len(t) = 2 \/ pc = "get_access_token_retry" => t[1].raised
        /\ signin.error # [kind |-> "exception", e |-> Raised("get_access_token", FALSE)]
        /\ Len(t) = 2 /\ t[2].cls = "complete" =>
              /\ pc \in {"sign_in", "sign_in_retry"} \/ SignInReqs # <<>>
              /\ pc = "sign_in" => signin.error = NoError
        /\ Len(t) = 2 /\ t[2].raised =>
              /\ SignInReqs = <<>> /\ pc \notin {"sign_in", "sign_in_retry"}
              /\ signin.error = [kind |-> "exception", e |-> Raised("get_access_token", TRUE)]
              /\ results # <<>>
              /\ ~Last(results).success
              /\ Last(results).text.error = DumpsStr(signin.error)

C1_Witness ==
    /\ Len(TokenReqs) = 2
    /\ TokenReqs[1].raised
    /\ TokenReqs[2].cls = "complete"
    /\ pc = "sign_in"
    /\ signin.access_token = AT1

(***************************************************************************)
(* C2: an answer carrying RefreshTokenExpired or                           *)
(* InvalidParameter.RefreshToken, to the first request or to the retry,    *)
(* is the last exchange request of the account: the exchange fails at      *)
(* once with that answer stored as the error, and no sign-in request is    *)
(* issued.                                                                 *)
(***************************************************************************)
C2_InvalidCredentialNoRetry ==
    \A i \in 1..Len(TokenReqs) :
        TokenReqs[i].cls = "invalid_code" =>
            /\ i = Len(TokenReqs)
            /\ ExchangeFailed
            /\ SignInReqs = <<>>
            /\ pc \notin {"sign_in", "sign_in_retry"}
            /\ signin.error.kind = "data"
            /\ "code" \in DOMAIN signin.error.data
            /\ signin.error.data.code = TokenReqs[i].code
            /\ signin.access_token = PyNone

C2_Witness ==
    /\ Len(TokenReqs) = 2
    /\ TokenReqs[2].cls = "invalid_code"
    /\ TokenReqs[2].code = "InvalidParameter.RefreshToken"
    /\ pc = "loop"
    /\ Len(results) = 1

(***************************************************************************)
(* C3: every sign-in request carries an access credential that is not      *)
(* absent.                                                                 *)
(***************************************************************************)
C3_SignInHasToken ==
    \A i \in 1..Len(SignInReqs) : SignInReqs[i].token # PyNone

(***************************************************************************)
(* C4: on every error path (the exchange failed; the sign-in request       *)
(* failed twice, or was answered without a success indicator or with       *)
(* success false) no exception leaves SignIn.run, and the outcome it       *)
(* returns has success false, count 0 and a stored error that is rendered  *)
(* into its text.                                                          *)
(***************************************************************************)
ErrorPath ==
    \/ ExchangeFailed
    \/ SignInReqs # <<>> /\
         Last(SignInReqs).cls \in {"exception", "no_success", "success_false"}

C4_RunReturnsOutcome ==
    /\ ErrorPath => raised.in # "sign_in"
    /\ RunOver /\ ErrorPath =>
          /\ results # <<>>
          /\ ~Last(results).success
          /\ Last(results).count = 0
          /\ signin.error # NoError
          /\ Last(results).text.literal = "failure"
          /\ Last(results).text.error = DumpsStr(signin.error)

(***************************************************************************)
(* C5: the run loop handles every account: whenever main has left the      *)
(* loop, by its end or by an exception, results holds one outcome per      *)
(* configured account.                                                     *)
(***************************************************************************)
LoopLeft == pc \in {"crashed", "push_rewards", "update", "done"}

C5_EveryAccountRun == LoopLeft => Len(results) = Len(users)

(***************************************************************************)
(* C6: reward redemption is attempted for an account exactly when its      *)
(* credential exchange succeeded: main never reaches reward_code after a   *)
(* failed exchange, and never passes to the next account after a           *)
(* successful one without a redemption request.                            *)
(***************************************************************************)
C6_RewardIffTokenAcquired ==
    /\ pc = "reward_code" \/ RewardReqs # <<>> => ExchangeSucceeded
    /\ pc = "loop" /\ ExchangeSucceeded => RewardReqs # <<>>

(***************************************************************************)
(* C7: whatever the redemption request meets, the run goes on, the         *)
(* outcome collected for the account stays as SignIn.run returned it, and  *)
(* a message for the account is added to the reward report.                *)
(***************************************************************************)
C7_RewardFailureContained ==
    RewardReqs # <<>> =>
        /\ pc # "crashed"
        /\ Last(results) = generate_result(signin)
        /\ rewards # <<>>
        /\ Last(rewards).phone = signin.phone

(***************************************************************************)
(* C10: the list of updated refresh credentials has one entry per account  *)
(* in input order, and the entry of an account is the credential the       *)
(* provider issued in its exchange when the exchange succeeded, and the    *)
(* account's configured credential otherwise.                              *)
(***************************************************************************)
C10_UpdatedCredentials ==
    /\ pc = "done" =>
          /\ persisted.new_users = Column(results, "refresh_token")
          /\ config.by_action => Len(persisted.new_users) = Len(users)
    /\ RunOver /\ pc \in {"loop", "reward_code"} =>
          Last(results).refresh_token =
              IF ExchangeSucceeded THEN Last(TokenReqs).rt
              ELSE users[Len(results)]

(***************************************************************************)
(* C8: push calls exactly the registered adapters whose name is among the  *)
(* configured names, lower-cased and trimmed: each once, in registration   *)
(* order whatever the order of the configured names, each with the         *)
(* arguments push was given; a configured name that is no registered       *)
(* adapter is ignored.                                                     *)
(***************************************************************************)
\* the configured names, lower-cased and trimmed
EnabledNames ==
    LET raw == AsList(config.push_types)
    IN  { strip(lower(raw[i])) : i \in 1..Len(raw) }

\* position of an adapter in the registry
RegistryIndex(a) == CHOOSE i \in 1..Len(Registry) : Registry[i] = a

CalledAdapters(p) == { p.calls[i].adapter : i \in 1..Len(p.calls) }

C8_ExactlyEnabledAdapters ==
    pc = "pushed" =>
        LET p == pushed[1]
        IN  /\ CalledAdapters(p) = { Registry[i] : i \in 1..Len(Registry) } \cap EnabledNames
            /\ \A i, j \in 1..Len(p.calls) :
                  i < j => RegistryIndex(p.calls[i].adapter) < RegistryIndex(p.calls[j].adapter)
            /\ \A i \in 1..Len(p.calls) :
                  /\ p.calls[i].config = config
                  /\ p.calls[i].content = p.content
                  /\ p.calls[i].content_html = p.content_html
                  /\ p.calls[i].title = p.title

C8_Witness ==
    /\ pc = "pushed"
    /\ config.push_types = [type |-> "list",
                            val |-> << <<"S","M","T","P"," ">>,
                                       <<"T","e","l","e","g","r","a","m">> >>]
    /\ Len(pushed[1].calls) = 2
    /\ pushed[1].calls[1].adapter = telegram
    /\ pushed[1].calls[2].adapter = smtp

(***************************************************************************)
(* C9: an adapter that fails does not keep the enabled adapters after it   *)
(* in registration order from being called.                                *)
(***************************************************************************)
C9_FailureDoesNotStopOthers ==
    pc = "pushed" =>
        LET p == pushed[1]
        IN  \A i \in 1..Len(p.calls) :
              ~p.calls[i].sent =>
                 \A k \in 1..Len(Registry) :
                    k > RegistryIndex(p.calls[i].adapter) /\ Registry[k] \in EnabledNames =>
                       \E j \in (i+1)..Len(p.calls) : p.calls[j].adapter = Registry[k]

C9_Witness ==
    /\ pc = "pushed"
    /\ Len(pushed[1].calls) = 2
    /\ ~pushed[1].calls[1].sent
    /\ pushed[1].calls[1].adapter = dingtalk
    /\ pushed[1].calls[2].adapter = feishu
    /\ pushed[1].calls[2].sent

(***************************************************************************)
(* C11: in a run over two accounts whose first account succeeds with a     *)
(* streak of 5 and no reward and whose second account fails on a malformed *)
(* answer (an exchange answer that lacks a field, or a sign-in answer      *)
(* without a success indicator), the combined report is the two            *)
(* renderings in account order joined by a blank line, and the list of     *)
(* refresh tokens has the rotated value of the first account and the       *)
(* original value of the second.                                           *)
(***************************************************************************)
SecondMalformed ==
    \/ TokenReqs # <<>> /\ Last(TokenReqs).cls = "missing_field"
    \/ SignInReqs # <<>> /\ Last(SignInReqs).cls = "no_success"

C11_Scenario ==
    /\ pc = "done"
    /\ Len(results) = 2
    /\ results[1].success
    /\ results[1].count = 5
    /\ results[1].reward = NoRewardText
    /\ results[1].text.literal = "success"
    /\ ~results[2].success
    /\ SecondMalformed

C11_EndToEnd ==
    C11_Scenario =>
        /\ pushed[1].title = "signin"
        /\ pushed[1].content = JoinText(<<results[1].text, results[2].text>>, FALSE)
        /\ results[2].text.literal = "failure"
        /\ persisted.new_users = <<NewRT1, OldRT(2)>>

(***************************************************************************)
(* The log the sign-in request of SpecSignIn was answered with, and the    *)
(* 0-based index of its first missed entry.                                *)
(***************************************************************************)
SignInAnswered == arg # NoArg /\ SignInReqs # <<>>
AnsweredLogs == arg.data.result.signInLogs

\* entry k (0-based) is the first missed one, every entry before it is signed
FirstMissedAt(logs, k) ==
    /\ k + 1 \in 1..Len(logs)
    /\ logs[k + 1].status = "miss"
    /\ \A j \in 1..k : logs[j].status = "normal"

\* the reward text of an entry, as the report words it
ExpectedReward(entry) ==
    IF entry.isReward
    THEN <<"got", " ">> \o entry.reward.name \o <<" ">> \o entry.reward.description
    ELSE <<"no_reward">>

\* the sign-in took the entry at 0-based index p of the log as today's
TodayIs(logs, p) ==
    /\ p + 1 \in 1..Len(logs)
    /\ pc # "crashed"
    /\ signin.signin_reward = ExpectedReward(logs[p + 1])
    /\ signin.signin_count = arg.data.result.signInCount
    /\ Last(results).count = arg.data.result.signInCount
    /\ Last(results).reward = ExpectedReward(logs[p + 1])

(***************************************************************************)
(* C12 as stated: for every log whose first missed entry is at index k,    *)
(* with every entry before it signed, the sign-in takes the entry at index *)
(* k-1 as today's: the reward text is that entry's (its name and           *)
(* description when it is flagged, the no-reward text when not) and the    *)
(* streak is the signInCount of the answer.                                *)
(***************************************************************************)
C12_TodayBeforeFirstMiss ==
    SignInAnswered =>
        \A k \in 0..MaxLogLen :
            FirstMissedAt(AnsweredLogs, k) => TodayIs(AnsweredLogs, k - 1)

(***************************************************************************)
(* C12 amended: the same for every log whose first missed entry is at      *)
(* index k >= 1.  (For k = 0 there is no entry at index k-1: the code's    *)
(* index -1 selects the last entry of the log.)                            *)
(***************************************************************************)
C12_TodayBeforeFirstMissFromOne ==
    SignInAnswered =>
        \A k \in 1..MaxLogLen :
            FirstMissedAt(AnsweredLogs, k) => TodayIs(AnsweredLogs, k - 1)

C12_Witness ==
    /\ SignInAnswered
    /\ Len(AnsweredLogs) = 3
    /\ FirstMissedAt(AnsweredLogs, 2)
    /\ ~AnsweredLogs[1].isReward
    /\ AnsweredLogs[2].isReward
    /\ ~AnsweredLogs[3].isReward
    /\ AnsweredLogs[2].reward.name = <<"y">>
    /\ signin.signin_reward = <<"got", " ", "y", " ", "d">>
    /\ signin.signin_count = 2
    /\ pc = "reward_code"

(***************************************************************************)
(* C13: when no entry of the log is missed (a fully signed month, or an    *)
(* empty log) the sign-in still completes: no exception leaves it and the  *)
(* account gets an outcome.                                                *)
(***************************************************************************)
NoMissedEntry(logs) == \A j \in 1..Len(logs) : logs[j].status # "miss"

C13_NoMissedEntryCompletes ==
    SignInAnswered /\ NoMissedEntry(AnsweredLogs) =>
        /\ pc # "crashed"
        /\ raised = NotRaised
        /\ Len(results) = 1

(***************************************************************************)
(* C14: the masked form of a refresh token of fewer than 8 characters      *)
(* (lengths 0 to 7) is the token itself.                                   *)
(***************************************************************************)
Constructed == pc = "get_access_token" /\ reqs = <<>>

C14_ShortUnchanged ==
    Constructed /\ Len(signin.refresh_token) < 8 =>
        signin.hide_refresh_token = signin.refresh_token

(***************************************************************************)
(* C15: the masked form of a refresh token of 8 characters or more has     *)
(* the length of the token, the first 4 and the last 4 characters of the   *)
(* token in place, and the mask symbol at every position between them.     *)
(***************************************************************************)
C15_LongMasked ==
    LET s == signin.refresh_token
        h == signin.hide_refresh_token
    IN  Constructed /\ Len(s) >= 8 =>
            /\ Len(h) = Len(s)
            /\ \A i \in 1..4 : h[i] = s[i]
            /\ \A i \in (Len(s) - 3)..Len(s) : h[i] = s[i]
            /\ \A i \in 5..(Len(s) - 4) : h[i] = "*"

C15_Witness ==
    /\ Constructed
    /\ signin.refresh_token = <<"a","b","b","a","a","b","b","a","a","b">>
    /\ signin.hide_refresh_token = <<"a","b","b","a","*","*","b","a","a","b">>

(***************************************************************************)
(* C16: when github.update_secret fails at the end of a run, main neither  *)
(* ends with an exception nor stays silent: after the combined report has  *)
(* been pushed, an alert whose text is not the report's is pushed to the   *)
(* same enabled adapters, and it is the last push of the run.              *)
(***************************************************************************)
CombinedReport == JoinText(Column(results, "text"), FALSE)

C16_UpdateFailureAlerted ==
    persisted.sink = "github_failed" =>
        /\ pc = "done"
        /\ raised = NotRaised
        /\ Len(pushed) >= 2
        /\ pushed[1].content = CombinedReport
        /\ Last(pushed).content = [literal |-> "update_failed"]
        /\ Last(pushed).content # pushed[1].content
        /\ Column(Last(pushed).calls, "adapter") = Column(pushed[1].calls, "adapter")
        /\ \A i \in 1..Len(Last(pushed).calls) :
              Last(pushed).calls[i].content = [literal |-> "update_failed"]

C16_Witness ==
    /\ persisted.sink = "github_failed"
    /\ Len(results) = 2
    /\ Len(pushed) = 3
    /\ pushed[2].title = "anniversary"
    /\ Column(Last(pushed).calls, "adapter") = <<dingtalk, smtp>>

(***************************************************************************)
(* C17: every run pushes the combined report exactly once, after every     *)
(* account has been run: the report is the renderings of all the outcomes  *)
(* in account order joined by a blank line (the failure rendering of every *)
(* failed account among them); the reward report is pushed after it, and   *)
(* only when some reward message was recorded.                             *)
(***************************************************************************)
IsReport(p) == p.title = "signin" /\ p.content # [literal |-> "update_failed"]
Reports == SelectSeq(pushed, IsReport)
RunEnded == pc \in {"done", "crashed"}

\* what holds of the pushes a run has made so far
C17_ReportShape ==
    /\ Len(Reports) <= 1
    /\ pushed # <<>> =>
          /\ IsReport(pushed[1])
          /\ pushed[1].content = CombinedReport
          /\ pushed[1].content.sep = "\n\n"
          /\ pushed[1].content_html = JoinText(Column(results, "text_html"), FALSE)
          /\ \A i \in 1..Len(results) :
                ~results[i].success => pushed[1].content.parts[i].literal = "failure"
    /\ pc \in {"push_rewards", "update"} => Len(results) = Len(users)
    /\ \A i \in 1..Len(pushed) :
          pushed[i].title = "anniversary" =>
              /\ i = 2
              /\ rewards # <<>>
              /\ pushed[i].content = JoinText(rewards, TRUE)

C17_ReportOnceEveryRun ==
    /\ C17_ReportShape
    /\ RunEnded => Len(Reports) = 1

(***************************************************************************)
(* C18: a transport failure of the first sign-in request is retried        *)
(* exactly once, and only a transport failure is: an answer without a      *)
(* success indicator is the last sign-in request of the account; a second  *)
(* transport failure ends the sign-in as a failure with the error of the   *)
(* second attempt stored (and rendered into the outcome); at most two      *)
(* sign-in requests are issued per account.                                *)
(***************************************************************************)
C18_SignInRetryOnce ==
    LET t == SignInReqs
    IN  /\ Len(t) <= 2
        /\ Len(t) >= 1 /\ t[1].raised => Len(t) = 2 \/ pc = "sign_in_retry"
        /\ Len(t) = 2 \/ pc = "sign_in_retry" => t[1].raised
        /\ \A i \in 1..Len(t) :
              t[i].cls = "no_success" =>
                  /\ i = Len(t)
                  /\ pc \notin {"sign_in", "sign_in_retry"}
                  /\ signin.error.kind = "data"
        /\ signin.error # [kind |-> "exception", e |-> Raised("sign_in", FALSE)]
        /\ Len(t) = 2 /\ t[2].raised =>
              /\ pc \notin {"sign_in", "sign_in_retry"}
              /\ raised.in # "sign_in"
              /\ signin.error = [kind |-> "exception", e |-> Raised("sign_in", TRUE)]
              /\ results # <<>>
              /\ ~Last(results).success
              /\ Last(results).text.error = DumpsStr(signin.error)

C18_Witness ==
    /\ Len(SignInReqs) = 2
    /\ SignInReqs[1].raised
    /\ SignInReqs[2].raised
    /\ signin.error = [kind |-> "exception", e |-> Raised("sign_in", TRUE)]
    /\ pc = "reward_code"
    /\ Len(results) = 1

(***************************************************************************)
(* C19: for every answer to the redemption request reward_code returns,    *)
(* and returns one of three results: None exactly when the answer reports  *)
(* success false with code 30009; a success message when the answer        *)
(* reports success; a failure message otherwise, where the message for an  *)
(* answer without a success indicator is not the message of a rejected     *)
(* redemption.  A transport error is returned as a failure message after   *)
(* the one request, which is not retried.                                  *)
(***************************************************************************)
C19_RewardThreeResults ==
    RewardReqs # <<>> =>
        /\ Len(RewardReqs) = 1
        /\ raised.in # "reward_code"
        /\ rewards # <<>>
        /\ LET q == Last(RewardReqs)
               m == Last(rewards).reward
           IN  /\ m = [literal |-> "already_redeemed"] <=> q.cls = "redeemed"
               /\ q.cls = "success_true" => m.literal = "success"
               /\ q.cls = "rejected" => m.literal = "failure"
               /\ q.cls = "no_success" => m.literal = "error"
               /\ q.cls = "exception" => m = [literal |-> "request_error"]

(***************************************************************************)
(* C20: in every outcome run returns, success is true exactly when the     *)
(* count is not 0, the plain and the marked-up text are both the success   *)
(* text or both the failure text accordingly, and an outcome with success  *)
(* false comes with a stored error that is not None; also when the         *)
(* sign-in answer is well-formed and reports a count of 0.                 *)
(***************************************************************************)
C20_OutcomeConsistent ==
    RunOver =>
        LET o == Last(results)
            form == IF o.success THEN "success" ELSE "failure"
        IN  /\ o.success <=> o.count # 0
            /\ o.text.literal = form
            /\ o.text_html.literal = form
            /\ ~o.success => signin.error # NoError

====
